---- MODULE Spec2Model ----
(***************************************************************************)
(* Model of autoplate_rust (src/src/main.rs): the pipeline                 *)
(*   main -> [download_from_ftp] -> process_zip_file -> display_results    *)
(* with the scan loop of process_zip_file taken event by event, the        *)
(* ProgressReader taken read by read, and display_results as a function    *)
(* of the store.                                                           *)
(*                                                                         *)
(* Strings that the program compares or sorts (plates, store keys) are     *)
(* tuples of byte values, so that is_empty() and the byte-wise order of    *)
(* String are computed and not assumed.                                    *)
(***************************************************************************)
EXTENDS Integers, Sequences, FiniteSets, TLC

VARIABLES
    \* ---- main / process_zip_file
    pc,                \* control position of the run
    args,              \* env::args(): the program name, then the arguments
    result,            \* what main returns: its kind ("none" while running) and its message
    ftpAttempted,      \* download_from_ftp was called
    db,                \* HashMap<String, LicensePlate>
    emitted,           \* identifiers of the Records built so far
    processed_count,   \* process_zip_file: processed_count
    milestones,        \* the counts printed by "Processed {} plates...", in order
    clock,             \* number of SystemTime::now() calls so far (logical time)
    nEntries,          \* archive.len()
    idx,               \* loop variable i of "for i in 0..archive.len()"
    in_vehicle,        \* scan loop local
    in_license_plate,  \* scan loop local
    plate,             \* current_vehicle.license_plate
    warned,            \* entries for which the parse-error warning was printed
    \* ---- the document the reader is in (not program state: what the
    \* ---- claims about documents are stated over)
    stack,             \* names of the open elements, innermost last
    field_text,        \* text read last inside a LicensePlate inside the outermost open Vehicle
    nested,            \* a Vehicle opened inside a Vehicle, or a LicensePlate inside a LicensePlate
    \* ---- the input, when its content is fixed
    archive,           \* the entries of the archive, or << >> when the reader is free
    input,             \* events of the current entry not yet read
    pending,           \* parts of the current entry still to come after those of input
    stream,            \* whether the documents read are of bounded length, and what is left
    table,             \* the ParseState of the specified transition table, stepped alongside
    \* ---- ProgressReader
    total, current, last_print,
    progress_out,      \* percentages printed, in order
    read_log,          \* what the wrapped reader returned, read by read (-1: an error)
    ret,               \* what ProgressReader::read returned last (-1: an error, -2: no call yet)
    \* ---- display_results
    shown,             \* the numbered lines printed
    shown_total,       \* the "(N total)" of the header, -1 before the call
    shown_more         \* the N of "... and N more", -1 when the line is not printed

mainVars == <<pc, args, result, ftpAttempted, db, emitted, processed_count, milestones,
              clock, nEntries, idx, in_vehicle, in_license_plate, plate, warned>>
docVars == <<stack, field_text, nested, table>>
inVars == <<archive, input, pending, stream>>
prVars == <<total, current, last_print, progress_out, read_log, ret>>
dispVars == <<shown, shown_total, shown_more>>
vars == <<mainVars, docVars, inVars, prVars, dispVars>>

-----------------------------------------------------------------------------
(* Bounds *)

MaxEntries == 2    \* entries of an archive
MaxDepth == 2      \* open elements of a document
MaxInserts == 2    \* insertions of a run
MaxReads == 4      \* read calls of a transfer
LongLoopsA == 1200 \* vehicles of the first entry of the long archive
LongLoopsB == 900  \* vehicles with a plate of its second entry
MaxEvents == 4     \* events of a document of bounded length, before its end

-----------------------------------------------------------------------------
(* Strings *)

EmptyString == << >>
AB12345 == <<65, 66, 49, 50, 51, 52, 53>>
CD67890 == <<67, 68, 54, 55, 56, 57, 48>>
EF11111 == <<69, 70, 49, 49, 49, 49, 49>>

\* as if no string were taken for empty
is_empty_never(s) == FALSE

\* String::is_empty
is_empty(s) == Len(s) = 0

\* Decoded texts a text event of a free reader may carry
Texts == {AB12345, CD67890}

Vehicle == "Vehicle"
LicensePlate == "LicensePlate"
OtherTag == "Other"
TagNames == {Vehicle, LicensePlate, OtherTag}

-----------------------------------------------------------------------------
(* The command line, the file system, the outcome *)

\* what main returns
Result(kind, message) == [kind |-> kind, message |-> message]

\* the paths that exist
ExistingFiles == {"plates.zip"}

\* args.len() > 1
hasArg == Len(args) > 1
\* let filename = &args[1]
filename == args[2]
\* as if the check were left out
Exists_always(f) == TRUE

\* path.exists()
Exists(f) == f \in ExistingFiles

-----------------------------------------------------------------------------
(* Events of quick_xml's read_event_into *)

\* kind "Text": ok = FALSE is a text whose unescape() fails
\* kind "Other": every event the match sends to "_ => {}" (Empty, Comment, CData, ...)
Event(kind, name, text, ok) == [kind |-> kind, name |-> name, text |-> text, ok |-> ok]
StartEv(n) == Event("Start", n, EmptyString, TRUE)
EndEv(n) == Event("End", n, EmptyString, TRUE)
TextEv(t) == Event("Text", "", t, TRUE)
BadTextEv == Event("Text", "", EmptyString, FALSE)
EofEv == Event("Eof", "", EmptyString, TRUE)
ErrEv == Event("Err", "", EmptyString, TRUE)
OtherEv == Event("Other", "", EmptyString, TRUE)
NoEv == Event("None", "", EmptyString, TRUE)

-----------------------------------------------------------------------------
(* The store *)

EmptyDb == [k \in {} |-> 0]

\* LicensePlate { plate, timestamp }
Record(p, t) == [plate |-> p, timestamp |-> t]

\* as entry(key).or_insert(value) would: a stored value is kept
Insert_keepFirst(d, k, v) == [x \in (DOMAIN d) \cup {k} |-> IF x \in DOMAIN d THEN d[x] ELSE v]

\* HashMap::insert(key, value): the value replaces the one stored under key
Insert(d, k, v) == [x \in (DOMAIN d) \cup {k} |-> IF x = k THEN v ELSE d[x]]

-----------------------------------------------------------------------------
(* The document being read *)

Top(s) == s[Len(s)]
Pop(s) == SubSeq(s, 1, Len(s) - 1)
OpenTags(s) == {s[k] : k \in 1..Len(s)}

\* the outermost open Vehicle has an open LicensePlate inside it
InFieldOfOutermost(s) ==
    \E k \in 1..Len(s) :
        /\ s[k] = Vehicle
        /\ \A j \in 1..(k - 1) : s[j] # Vehicle
        /\ \E j \in (k + 1)..Len(s) : s[j] = LicensePlate

\* the open elements after the event e
StackAfter(s, e) ==
    CASE e.kind = "Start" -> Append(s, e.name)
      [] e.kind = "End" -> Pop(s)
      [] e.kind \in {"Eof", "Err"} -> << >>
      [] OTHER -> s

\* the field text of the outermost open Vehicle after the event e: empty when
\* that Vehicle opens, and when it has closed and the next event is read
FieldTextAfter(s, ft, e) ==
    CASE e.kind = "Text" /\ e.ok /\ InFieldOfOutermost(s) -> e.text
      [] e.kind \in {"Eof", "Err"} -> EmptyString
      [] Vehicle \notin OpenTags(s) -> EmptyString
      [] OTHER -> ft

NestedAfter(s, e) ==
    e.kind = "Start" /\ e.name \in {Vehicle, LicensePlate} /\ e.name \in OpenTags(s)

\* What a reader that is free to read any document may return next. An
\* end-tag is returned for the innermost open element only: the reader
\* compares the names and returns an error otherwise. (MaxDepth and
\* MaxInserts bound the documents read.)
CanStart(n) == Len(stack) < MaxDepth
CanEnd(n) ==
    Len(stack) > 0 /\ Top(stack) = n
    /\ ((n = Vehicle /\ ~is_empty(plate)) => (processed_count < MaxInserts))
FreeYield ==
    {StartEv(n) : n \in {m \in TagNames : CanStart(m)}}
    \cup {EndEv(n) : n \in {m \in TagNames : CanEnd(m)}}
    \cup {TextEv(t) : t \in Texts}
    \cup {BadTextEv, OtherEv, EofEv, ErrEv}

\* The documents a free reader reads are of any length, or of at most n events
\* before the end of input or the first error.
AnyLength == [finite |-> FALSE, left |-> 0]
OfLength(n) == [finite |-> TRUE, left |-> n]
StreamYield ==
    IF stream.finite /\ stream.left = 0 THEN {EofEv, ErrEv} ELSE FreeYield
StreamAfter(st) == IF st.finite /\ st.left > 0 THEN [st EXCEPT !.left = st.left - 1] ELSE st
StreamAtStart(st) == IF st.finite THEN OfLength(MaxEvents) ELSE st

\* An entry of a fixed archive: kind "file", "dir", or "bad" (by_index fails).
\* Its document is the events of body, loops times over, then those of events.
LoopEntry(body, loops, events) ==
    [kind |-> "file", events |-> events, body |-> body, loops |-> loops]
Entry(kind, events) == [kind |-> kind, events |-> events, body |-> << >>, loops |-> 0]
EntryKinds == {"file", "dir", "bad"}

\* the first part of the document of an entry, and the parts to come after it
FirstInput(entry) == IF entry.loops > 0 THEN entry.body ELSE entry.events
FirstPending(entry) == entry.loops

\* the events not yet read, after one is read
InputAfter(entry, in, pend) ==
    IF Tail(in) # << >> THEN Tail(in)
    ELSE IF pend > 1 THEN entry.body
    ELSE IF pend = 1 THEN entry.events
    ELSE << >>
PendingAfter(in, pend) == IF Tail(in) = << >> /\ pend > 0 THEN pend - 1 ELSE pend

\* The transition table of the specification, section 4.3, with Vehicle as
\* RecordElement and LicensePlate as FieldElement. A text that cannot be
\* decoded gives no decoded text to set.
TableInit ==
    [inRecordElement |-> FALSE, inFieldElement |-> FALSE, pendingFieldText |-> EmptyString]

TableStep(t, e) ==
    CASE e.kind = "Start" /\ e.name = Vehicle ->
            [t EXCEPT !.inRecordElement = TRUE, !.pendingFieldText = EmptyString]
      [] e.kind = "Start" /\ e.name = LicensePlate /\ t.inRecordElement ->
            [t EXCEPT !.inFieldElement = TRUE]
      [] e.kind = "Text" /\ e.ok /\ t.inRecordElement /\ t.inFieldElement ->
            [t EXCEPT !.pendingFieldText = e.text]
      [] e.kind = "End" /\ e.name = LicensePlate ->
            [t EXCEPT !.inFieldElement = FALSE]
      [] e.kind = "End" /\ e.name = Vehicle ->
            [t EXCEPT !.inRecordElement = FALSE]
      [] e.kind \in {"Eof", "Err"} -> TableInit
      [] OTHER -> t

\* reader.read_event_into(&mut buf) returns e
Reads(e) ==
    /\ pc = "scan"
    /\ IF archive = << >>
         THEN /\ e \in StreamYield
              /\ stream' = StreamAfter(stream)
              /\ UNCHANGED <<archive, input, pending>>
         ELSE /\ input # << >>
              /\ e = Head(input)
              /\ input' = InputAfter(archive[idx + 1], input, pending)
              /\ pending' = PendingAfter(input, pending)
              /\ UNCHANGED <<archive, stream>>
    /\ stack' = StackAfter(stack, e)
    /\ field_text' = FieldTextAfter(stack, field_text, e)
    /\ nested' = IF e.kind \in {"Eof", "Err"} THEN FALSE ELSE nested \/ NestedAfter(stack, e)
    /\ table' = TableStep(table, e)

-----------------------------------------------------------------------------
(* process_zip_file: the scan loop *)

scanFrame == <<args, result, ftpAttempted, nEntries, prVars, dispVars>>

\* Ok(Event::Start(ref e))
StartTag ==
    \E n \in TagNames :
        /\ Reads(StartEv(n))
        /\ in_vehicle' = IF n = Vehicle THEN TRUE ELSE in_vehicle
        /\ plate' = IF n = Vehicle THEN EmptyString ELSE plate
        /\ in_license_plate' = IF n = LicensePlate THEN TRUE ELSE in_license_plate
        /\ UNCHANGED <<pc, idx, db, emitted, milestones, processed_count, clock, warned, scanFrame>>

\* as if a text were taken only while the plate is still empty
PlateAfterText_firstWins(inV, inL, e, old) ==
    IF inV /\ inL /\ e.ok /\ is_empty(old) THEN e.text ELSE old

\* as if one flag were enough
PlateAfterText_eitherFlag(inV, inL, e, old) ==
    IF (inV \/ inL) /\ e.ok THEN e.text ELSE old

\* if in_vehicle && in_license_plate { if let Ok(text) = e.unescape() {
\*     current_vehicle.license_plate = text.into_owned() } }
PlateAfterText(inV, inL, e, old) == IF inV /\ inL /\ e.ok THEN e.text ELSE old

\* Ok(Event::Text(e))
Text ==
    \E e \in {TextEv(t) : t \in Texts \cup {EF11111}} \cup {BadTextEv} :
        /\ Reads(e)
        /\ plate' = PlateAfterText(in_vehicle, in_license_plate, e, plate)
        /\ UNCHANGED <<pc, idx, in_vehicle, in_license_plate, db, emitted, milestones, processed_count,
                       clock, warned, scanFrame>>

\* "processed_count % 1000": the distance of the milestones
MilestoneEvery == 1000

\* as if the test were made before the count is incremented
MilestoneDue_early(count) == (count - 1) % MilestoneEvery = 0

\* if processed_count % 1000 == 0
MilestoneDue(count) == count % MilestoneEvery = 0

\* as if only the plates not yet stored were counted
EmitRecord_countNew ==
    /\ db' = Insert(db, plate, Record(plate, clock))
    /\ emitted' = emitted \cup {plate}
    /\ clock' = clock + 1
    /\ processed_count' = IF plate \in DOMAIN db THEN processed_count ELSE processed_count + 1
    /\ milestones' = IF MilestoneDue(processed_count') /\ processed_count' # processed_count
                       THEN Append(milestones, processed_count')
                       ELSE milestones

\* the body of "if !current_vehicle.license_plate.is_empty()"
EmitRecord ==
    /\ db' = Insert(db, plate, Record(plate, clock))
    /\ emitted' = emitted \cup {plate}
    /\ clock' = clock + 1
    /\ processed_count' = processed_count + 1
    /\ milestones' = IF MilestoneDue(processed_count')
                       THEN Append(milestones, processed_count')
                       ELSE milestones

\* Ok(Event::End(ref e))
EndTag ==
    \E n \in TagNames :
        /\ Reads(EndEv(n))
        /\ in_license_plate' = IF n = LicensePlate THEN FALSE ELSE in_license_plate
        /\ in_vehicle' = IF n = Vehicle THEN FALSE ELSE in_vehicle
        /\ IF n = Vehicle /\ ~is_empty(plate)
             THEN EmitRecord
             ELSE UNCHANGED <<db, emitted, milestones, clock, processed_count>>
        /\ UNCHANGED <<pc, idx, plate, warned, scanFrame>>

\* as if the loop went on after the end of input
Eof_continue ==
    /\ Reads(EofEv)
    /\ UNCHANGED <<pc, idx, in_vehicle, in_license_plate, plate, db, emitted, milestones,
                   processed_count, clock, warned, scanFrame>>

\* Ok(Event::Eof) => break
Eof ==
    /\ Reads(EofEv)
    /\ pc' = "entry"
    /\ idx' = idx + 1
    /\ UNCHANGED <<in_vehicle, in_license_plate, plate, db, emitted, milestones, processed_count, clock,
                   warned, scanFrame>>

\* as if abandoning an entry emptied the store
ParseError_discard ==
    /\ Reads(ErrEv)
    /\ warned' = warned \cup {idx}
    /\ pc' = "entry"
    /\ idx' = idx + 1
    /\ db' = EmptyDb
    /\ UNCHANGED <<in_vehicle, in_license_plate, plate, emitted, milestones, processed_count, clock,
                   scanFrame>>

\* as if the error were returned with "?"
ParseError_propagate ==
    /\ Reads(ErrEv)
    /\ result' = Result("DocumentParseError", "")
    /\ pc' = "done"
    /\ UNCHANGED <<idx, warned, in_vehicle, in_license_plate, plate, db, emitted, milestones,
                   processed_count, clock, args, ftpAttempted, nEntries, prVars, dispVars>>

\* Err(e) => { eprintln!(...); break }
ParseError ==
    /\ Reads(ErrEv)
    /\ warned' = warned \cup {idx}
    /\ pc' = "entry"
    /\ idx' = idx + 1
    /\ UNCHANGED <<in_vehicle, in_license_plate, plate, db, emitted, milestones, processed_count, clock,
                   scanFrame>>

\* _ => {}
OtherEvent ==
    /\ Reads(OtherEv)
    /\ UNCHANGED <<pc, idx, in_vehicle, in_license_plate, plate, db, emitted, milestones, processed_count,
                   clock, warned, scanFrame>>

-----------------------------------------------------------------------------
(* process_zip_file: the archive and its entries *)

entryFrame == <<args, ftpAttempted, nEntries, db, emitted, milestones, clock, warned,
                archive, prVars, dispVars>>

\* ZipArchive::new(file)?  and  let mut processed_count = 0
OpenArchive ==
    /\ pc = "archive"
    /\ \/ /\ result' = Result("ArchiveFormatError", "")
          /\ pc' = "done"
          /\ UNCHANGED <<nEntries, idx, processed_count>>
       \/ /\ nEntries' \in IF archive = << >> THEN 0..MaxEntries ELSE {Len(archive)}
          /\ idx' = 0
          /\ processed_count' = 0
          /\ pc' = "entry"
          /\ UNCHANGED result
    /\ UNCHANGED <<args, ftpAttempted, db, emitted, milestones, clock, in_vehicle,
                   in_license_plate, plate, warned, docVars, inVars, prVars, dispVars>>

\* as if the flags and the vehicle were declared outside the loop over the entries
NextEntry_noReset ==
    /\ pc = "entry"
    /\ idx < nEntries
    /\ \E kind \in EntryKinds :
        /\ archive # << >> => kind = archive[idx + 1].kind
        /\ CASE kind = "bad" ->
                  /\ result' = Result("EntryDecodeError", "")
                  /\ pc' = "done"
                  /\ UNCHANGED <<idx, in_vehicle, in_license_plate, plate, input, pending, stream>>
             [] kind = "dir" ->
                  /\ idx' = idx + 1
                  /\ UNCHANGED <<pc, result, in_vehicle, in_license_plate, plate, input, pending, stream>>
             [] kind = "file" ->
                  /\ UNCHANGED <<in_vehicle, plate, in_license_plate>>
                  /\ input' = IF archive = << >> THEN input ELSE FirstInput(archive[idx + 1])
                  /\ pending' = IF archive = << >> THEN pending ELSE FirstPending(archive[idx + 1])
                  /\ stream' = StreamAtStart(stream)
                  /\ pc' = "scan"
                  /\ UNCHANGED <<idx, result>>
    /\ UNCHANGED <<processed_count, docVars, entryFrame>>

\* for i in 0..archive.len() { let zip_file = archive.by_index(i)?; ... }
\* up to the first read of the scan loop
NextEntry ==
    /\ pc = "entry"
    /\ idx < nEntries
    /\ \E kind \in EntryKinds :
        /\ archive # << >> => kind = archive[idx + 1].kind
        /\ CASE kind = "bad" ->
                  /\ result' = Result("EntryDecodeError", "")
                  /\ pc' = "done"
                  /\ UNCHANGED <<idx, in_vehicle, in_license_plate, plate, input, pending, stream>>
             [] kind = "dir" ->
                  /\ idx' = idx + 1
                  /\ UNCHANGED <<pc, result, in_vehicle, in_license_plate, plate, input, pending, stream>>
             [] kind = "file" ->
                  /\ in_vehicle' = FALSE
                  /\ plate' = EmptyString
                  /\ in_license_plate' = FALSE
                  /\ input' = IF archive = << >> THEN input ELSE FirstInput(archive[idx + 1])
                  /\ pending' = IF archive = << >> THEN pending ELSE FirstPending(archive[idx + 1])
                  /\ stream' = StreamAtStart(stream)
                  /\ pc' = "scan"
                  /\ UNCHANGED <<idx, result>>
    /\ UNCHANGED <<processed_count, docVars, entryFrame>>

\* the loop is over: println!("Successfully processed ..."); Ok(())
EndOfArchive ==
    /\ pc = "entry"
    /\ idx >= nEntries
    /\ pc' = "display"
    /\ UNCHANGED <<idx, result, in_vehicle, in_license_plate, plate, input, pending, stream,
                   processed_count, docVars, entryFrame>>

-----------------------------------------------------------------------------
(* display_results *)

\* the order of String: byte-wise, a proper prefix first
LexLess(a, b) ==
    \E k \in 1..Len(b) :
        /\ \A j \in 1..(k - 1) : j <= Len(a) /\ a[j] = b[j]
        /\ \/ k > Len(a)
           \/ k <= Len(a) /\ a[k] < b[k]

\* as if plates.sort() were left out: the keys in the map's own order
Least_unsorted(S) == CHOOSE x \in S : TRUE

\* the least of S in the order of String
Least(S) == CHOOSE x \in S : \A y \in S : x = y \/ LexLess(x, y)

\* db.keys().cloned().collect() and plates.sort()
RECURSIVE SortedKeys(_)
SortedKeys(S) ==
    IF S = {} THEN << >> ELSE <<Least(S)>> \o SortedKeys(S \ {Least(S)})

\* "if i >= 9": the index of the last line of the preview
PreviewLast == 9
\* "plates.len() - 10": the length of the preview
PreviewSize == 10

\* for (i, plate) in plates.iter().enumerate() { ... if i >= 9 { ...; break } }
RECURSIVE DisplayLoop(_, _, _)
DisplayLoop(plates, i, out) ==
    IF i >= Len(plates)
      THEN [lines |-> out, more |-> -1]
      ELSE LET out2 == Append(out, plates[i + 1])
           IN  IF i >= PreviewLast
                 THEN [lines |-> out2, more |-> Len(plates) - PreviewSize]
                 ELSE DisplayLoop(plates, i + 1, out2)

\* display_results(&db), then main returns Ok(())
Display ==
    /\ pc = "display"
    /\ LET plates == SortedKeys(DOMAIN db)
           printed == DisplayLoop(plates, 0, << >>)
       IN  /\ shown_total' = Len(plates)
           /\ shown' = printed.lines
           /\ shown_more' = printed.more
    /\ result' = Result("Ok", "")
    /\ pc' = "done"
    /\ UNCHANGED <<args, ftpAttempted, db, emitted, milestones, processed_count, clock,
                   nEntries, idx, in_vehicle, in_license_plate, plate, warned,
                   docVars, inVars, prVars>>

-----------------------------------------------------------------------------
(* main *)

startFrame == <<args, db, emitted, milestones, processed_count, clock, nEntries, idx,
                in_vehicle, in_license_plate, plate, warned, docVars, inVars,
                prVars, dispVars>>

\* if args.len() > 1 { ... if !path.exists() { return Err("File not found") } }
MainLocalMissing ==
    /\ pc = "main"
    /\ hasArg /\ ~Exists(filename)
    /\ result' = Result("SourceNotFound", filename)
    /\ pc' = "done"
    /\ UNCHANGED <<ftpAttempted, startFrame>>

\* let mut file = File::open(path)?;
MainLocalOpen ==
    /\ pc = "main"
    /\ hasArg /\ Exists(filename)
    /\ \/ result' = Result("IoError", "") /\ pc' = "done"
       \/ pc' = "archive" /\ UNCHANGED result
    /\ UNCHANGED <<ftpAttempted, startFrame>>

\* let mut temp_file = download_from_ftp()?; temp_file.seek(Start(0))?;
MainRemote ==
    /\ pc = "main"
    /\ ~hasArg
    /\ ftpAttempted' = TRUE
    /\ \/ result' = Result("TransportError", "") /\ pc' = "done"
       \/ pc' = "archive" /\ UNCHANGED result
    /\ UNCHANGED startFrame

-----------------------------------------------------------------------------
(* ProgressReader, under io::copy *)

\* sizes a remote file may be listed with (0: the size column did not parse)
Totals == {0, 1, 3, 7, 1000}
\* byte counts a read of the wrapped reader may return (0: end of stream)
ReadSizes == {0, 1, 2, 250}
ReadError == -1
NoCall == -2
DivPanic == -1

\* as if the guard were left out
HasTotal_always(t) == TRUE

\* if self.total > 0
HasTotal(t) == t > 0

\* as if the division were made before the multiplication
PercentDone_divideFirst(cur, tot) == IF tot = 0 THEN DivPanic ELSE (cur \div tot) * 100

\* (self.current * 100) / self.total; integer division by zero panics
PercentDone(cur, tot) == IF tot = 0 THEN DivPanic ELSE (cur * 100) \div tot

\* as ">=" would
ShouldPrint_orEqual(percent, last) == percent >= last

\* if percent_done > self.last_print
ShouldPrint(percent, last) == percent > last

progressFrame == <<args, result, ftpAttempted, db, emitted, milestones, processed_count,
                   clock, nEntries, idx, in_vehicle, in_license_plate, plate, warned,
                   docVars, inVars, dispVars>>

\* ProgressReader::read when the wrapped read returns Ok(n); io::copy goes on
\* reading until a read returns Ok(0)
ReadOk ==
    /\ pc = "copy"
    /\ \E n \in ReadSizes :
        /\ n > 0 => Len(read_log) < MaxReads
        /\ read_log' = Append(read_log, n)
        /\ current' = current + n
        /\ IF HasTotal(total)
             THEN LET percent_done == PercentDone(current', total)
                  IN  IF percent_done = DivPanic
                        THEN /\ pc' = "panic"
                             /\ UNCHANGED <<last_print, progress_out, ret>>
                        ELSE /\ IF ShouldPrint(percent_done, last_print)
                                  THEN /\ last_print' = percent_done
                                       /\ progress_out' = Append(progress_out, percent_done)
                                  ELSE UNCHANGED <<last_print, progress_out>>
                             /\ ret' = n
                             /\ pc' = IF n = 0 THEN "copied" ELSE "copy"
             ELSE /\ UNCHANGED <<last_print, progress_out>>
                  /\ ret' = n
                  /\ pc' = IF n = 0 THEN "copied" ELSE "copy"
    /\ UNCHANGED <<total, progressFrame>>

\* as if the error were taken for the end of the stream
ReadErr_swallowed ==
    /\ pc = "copy"
    /\ Len(read_log) < MaxReads
    /\ read_log' = Append(read_log, ReadError)
    /\ ret' = 0
    /\ pc' = "copied"
    /\ UNCHANGED <<total, current, last_print, progress_out, progressFrame>>

\* ProgressReader::read when the wrapped read returns Err: "?" returns it.
\* io::copy retries an interrupted read and returns any other error.
ReadErr ==
    /\ pc = "copy"
    /\ Len(read_log) < MaxReads
    /\ read_log' = Append(read_log, ReadError)
    /\ ret' = ReadError
    /\ \E interrupted \in BOOLEAN : pc' = IF interrupted THEN "copy" ELSE "copy_failed"
    /\ UNCHANGED <<total, current, last_print, progress_out, progressFrame>>

-----------------------------------------------------------------------------
(* Archives read with a fixed content *)

\* <Vehicle><LicensePlate>t</LicensePlate></Vehicle>
VehicleEvents(t) ==
    <<StartEv(Vehicle), StartEv(LicensePlate), TextEv(t), EndEv(LicensePlate), EndEv(Vehicle)>>

\* entry A: three vehicles, the second a duplicate of the first
EntryA ==
    Entry("file", <<StartEv(OtherTag)>> \o VehicleEvents(AB12345) \o VehicleEvents(AB12345)
                  \o VehicleEvents(CD67890) \o <<EndEv(OtherTag), EofEv>>)

\* entry B: one vehicle, then unparsable
EntryB ==
    Entry("file", <<StartEv(OtherTag)>> \o VehicleEvents(EF11111) \o <<ErrEv>>)

ScenarioArchive == <<EntryA, EntryB>>

\* an entry that fails to parse inside <Vehicle><LicensePlate>AB12345, then
\* the entry <Vehicle>CD67890</Vehicle>
UnclosedArchive ==
    <<Entry("file", <<StartEv(Vehicle), StartEv(LicensePlate), TextEv(AB12345), ErrEv>>),
      Entry("file", <<StartEv(Vehicle), TextEv(CD67890), EndEv(Vehicle), EofEv>>)>>

\* <Vehicle><LicensePlate>, a text that cannot be unescaped, </LicensePlate></Vehicle>
UndecodableArchive ==
    <<Entry("file", <<StartEv(Vehicle), StartEv(LicensePlate), BadTextEv,
                      EndEv(LicensePlate), EndEv(Vehicle), EofEv>>)>>

FixedArchives ==
    {ScenarioArchive, <<Entry("dir", << >>), EntryB, EntryA>>, UnclosedArchive,
     UndecodableArchive}

-----------------------------------------------------------------------------
(* The run *)

InitStore ==
    /\ db = EmptyDb
    /\ emitted = {}
    /\ processed_count = 0
    /\ milestones = << >>
    /\ clock = 0
    /\ nEntries = 0
    /\ idx = 0

InitLocals ==
    /\ result = Result("none", "")
    /\ ftpAttempted = FALSE
    /\ in_vehicle = FALSE
    /\ in_license_plate = FALSE
    /\ plate = EmptyString
    /\ warned = {}
    /\ stack = << >>
    /\ field_text = EmptyString
    /\ nested = FALSE
    /\ table = TableInit
    /\ input = << >>
    /\ pending = 0

InitStream == stream = AnyLength

InitProgress ==
    /\ total = 0
    /\ current = 0
    /\ last_print = 0
    /\ progress_out = << >>
    /\ read_log = << >>
    /\ ret = NoCall

InitDisplay ==
    /\ shown = << >>
    /\ shown_total = -1
    /\ shown_more = -1

\* the command line and the file system
InitArgs ==
    args \in {<<"autoplate">>, <<"autoplate", "plates.zip">>, <<"autoplate", "missing.zip">>}

Init ==
    /\ pc = "main"
    /\ InitArgs
    /\ archive \in {<< >>} \cup FixedArchives
    /\ InitStream
    /\ InitStore
    /\ InitLocals
    /\ InitProgress
    /\ InitDisplay

Next ==
    \/ MainLocalMissing
    \/ MainLocalOpen
    \/ MainRemote
    \/ OpenArchive
    \/ NextEntry
    \/ EndOfArchive
    \/ StartTag
    \/ Text
    \/ EndTag
    \/ Eof
    \/ ParseError
    \/ OtherEvent
    \/ Display

Spec == Init /\ [][Next]_vars

\* A run over an archive of more than two thousand vehicles. Entry one holds
\* the same plate LongLoopsA times over; entry two holds LongLoopsB times a
\* vehicle with a plate and a vehicle without one, and then fails to parse.
LongEntryA == LoopEntry(VehicleEvents(AB12345), LongLoopsA, <<OtherEv, EofEv>>)
LongEntryB ==
    LoopEntry(VehicleEvents(CD67890) \o <<StartEv(Vehicle), EndEv(Vehicle)>>,
              LongLoopsB, <<ErrEv>>)
LongArchive == <<LongEntryA, LongEntryB>>

InitLong ==
    /\ pc = "main"
    /\ InitArgs
    /\ archive = LongArchive
    /\ InitStream
    /\ InitStore
    /\ InitLocals
    /\ InitProgress
    /\ InitDisplay

SpecLong == InitLong /\ [][Next]_vars

\* A run over any archive of at most MaxEntries entries whose documents have
\* at most MaxEvents events before their end, or over a fixed archive. The
\* program is one thread that takes its next step whenever it has one.
InitFinite ==
    /\ pc = "main"
    /\ InitArgs
    /\ archive \in {<< >>} \cup FixedArchives
    /\ stream = OfLength(MaxEvents)
    /\ InitStore
    /\ InitLocals
    /\ InitProgress
    /\ InitDisplay

SpecFinite == InitFinite /\ [][Next]_vars /\ WF_vars(Next)

\* ProgressReader::new(reader, zip_size), then io::copy
InitCopy ==
    /\ pc = "copy"
    /\ args = <<"autoplate">>
    /\ archive = << >>
    /\ InitStream
    /\ InitStore
    /\ InitLocals
    /\ total \in Totals
    /\ current = 0
    /\ last_print = 0
    /\ progress_out = << >>
    /\ read_log = << >>
    /\ ret = NoCall
    /\ InitDisplay

NextCopy ==
    \/ ReadOk
    \/ ReadErr

SpecProgress == InitCopy /\ [][NextCopy]_vars

\* display_results on a store of any size: identifiers of one or two bytes
DisplayIds ==
    {<<c>> : c \in {65, 66, 67}} \cup {<<c, d>> : c \in {65, 66, 67}, d \in {65, 66, 67}}

\* the store after the identifiers of S were inserted in ascending order
StoreOf(S) ==
    LET order == SortedKeys(S)
    IN  [k \in S |-> Record(k, (CHOOSE n \in 1..Len(order) : order[n] = k) - 1)]

InitShow ==
    /\ pc = "display"
    /\ args = <<"autoplate", "plates.zip">>
    /\ archive = << >>
    /\ InitStream
    /\ \E S \in SUBSET DisplayIds :
        /\ db = StoreOf(S)
        /\ emitted = S
        /\ processed_count = Cardinality(S)
        /\ milestones = << >>
        /\ clock = Cardinality(S)
    /\ nEntries = 1
    /\ idx = 1
    /\ InitLocals
    /\ InitProgress
    /\ InitDisplay

NextShow == Display

SpecDisplay == InitShow /\ [][NextShow]_vars

-----------------------------------------------------------------------------
(* Steps of the scan loop, told from the states before and after *)

\* the end-tag of a Vehicle was read
ClosesVehicle ==
    /\ pc = "scan" /\ pc' = "scan"
    /\ Len(stack') < Len(stack)
    /\ Top(stack) = Vehicle

\* ... of a Vehicle that is inside no other Vehicle
ClosesOutermostVehicle == ClosesVehicle /\ Vehicle \notin OpenTags(stack')

\* exactly one Record, with identifier t, was built and stored
EmitsOne(t) ==
    /\ processed_count' = processed_count + 1
    /\ emitted' = emitted \cup {t}
    /\ DOMAIN db' = DOMAIN db \cup {t}
    /\ db'[t].plate = t
    /\ \A k \in DOMAIN db \ {t} : db'[k] = db[k]

EmitsNone ==
    /\ processed_count' = processed_count
    /\ emitted' = emitted
    /\ db' = db

\* the parse-error arm was taken
AbandonsEntry == pc = "scan" /\ pc' # "scan" /\ (warned' # warned \/ result' # result)

-----------------------------------------------------------------------------
(* C1 *)

\* C1, as stated: in every document, nesting included, a Vehicle that
\* contains a LicensePlate with non-empty text yields at its end-tag exactly
\* one Record, whose identifier is that text. (Stated for the Vehicles that
\* are inside no other Vehicle.)
C1_AnyNesting ==
    [][(ClosesOutermostVehicle /\ ~is_empty(field_text)) => EmitsOne(field_text)]_vars

\* C1, amended: in every document in which no Vehicle is opened inside a
\* Vehicle and no LicensePlate inside a LicensePlate, a Vehicle whose last
\* decodable text inside a LicensePlate is t yields at its end-tag exactly
\* one Record, with identifier t.
C1_FlatDocuments ==
    [][(ClosesVehicle /\ ~nested /\ ~is_empty(field_text)) => EmitsOne(field_text)]_vars

\* a Vehicle of a flat document has just closed and its Record is stored
C1_Witness ==
    /\ pc = "scan"
    /\ ~nested
    /\ Vehicle \notin OpenTags(stack)
    /\ ~is_empty(field_text)
    /\ field_text \in DOMAIN db
    /\ field_text = plate
    /\ processed_count = 2

-----------------------------------------------------------------------------
(* C2 *)

\* C2: a Vehicle with no LicensePlate text inside it yields no Record and
\* no insertion at its end-tag.
C2_NoFieldNoRecord ==
    [][(ClosesOutermostVehicle /\ is_empty(field_text)) => EmitsNone]_vars

-----------------------------------------------------------------------------
(* C3 *)

\* C3: an insertion under a key already stored keeps the key set, stores
\* the later Record (its timestamp is the time of this insertion, later
\* than the one replaced) and leaves the other entries alone.
C3_LastWriteWins ==
    [][(processed_count' = processed_count + 1 /\ plate \in DOMAIN db) =>
          /\ DOMAIN db' = DOMAIN db
          /\ db'[plate] = Record(plate, clock)
          /\ db'[plate].timestamp > db[plate].timestamp
          /\ \A k \in DOMAIN db \ {plate} : db'[k] = db[k]]_vars

\* an identifier was inserted twice and the store holds the second Record
C3_Witness ==
    /\ processed_count = 2
    /\ DOMAIN db = {AB12345}
    /\ db[AB12345].timestamp = 1

-----------------------------------------------------------------------------
(* C4 *)

\* C4: the step that abandons an entry on a parse error changes nothing in
\* the store.
C4_AbandonKeepsStore == [][AbandonsEntry => db' = db]_vars

\* entry B was abandoned after its Record EF11111 was stored; it and the
\* Records of entry A, read before, are in the store
C4_Witness ==
    /\ archive = ScenarioArchive
    /\ pc = "entry"
    /\ idx = 2
    /\ warned = {1}
    /\ DOMAIN db = {AB12345, CD67890, EF11111}

-----------------------------------------------------------------------------
(* C5 *)

FatalKinds == {"SourceNotFound", "IoError", "TransportError", "ArchiveFormatError"}

\* C5: a run that ends without a fatal error (no source, transport or
\* archive-format error) ends in success with every entry visited: no
\* error of a single entry makes it fail.
C5_EntryErrorsDoNotAbort ==
    (pc = "done" /\ result.kind \notin FatalKinds) =>
        (result.kind = "Ok" /\ idx = nEntries)

-----------------------------------------------------------------------------
(* C6 *)

Last(seq) == seq[Len(seq)]
StrictlyIncreasing(seq) == \A i \in 1..(Len(seq) - 1) : seq[i] < seq[i + 1]

\* C6: with T > 0 a read prints a percentage exactly when
\* floor(current*100/T) after the read exceeds the percentage printed last,
\* and prints that value; the percentages printed are strictly increasing;
\* T = 1000 read in four reads of 250 bytes prints 25, 50, 75, 100.
C6_ProgressEvents ==
    /\ [][(pc = "copy" /\ total > 0) =>
            /\ (progress_out' # progress_out) <=> ((current' * 100) \div total > last_print)
            /\ (progress_out' # progress_out) =>
                  progress_out' = Append(progress_out, (current' * 100) \div total)]_vars
    /\ [](StrictlyIncreasing(progress_out))
    /\ []((total = 1000 /\ read_log = <<250, 250, 250, 250>>) =>
            progress_out = <<25, 50, 75, 100>>)

\* the transfer of 1000 bytes in four reads of 250 has printed its four percentages
C6_Witness ==
    /\ total = 1000
    /\ read_log = <<250, 250, 250, 250>>
    /\ progress_out = <<25, 50, 75, 100>>
    /\ current = 1000

-----------------------------------------------------------------------------
(* C7 *)

RECURSIVE BytesOf(_)
BytesOf(log) ==
    IF log = << >> THEN 0
    ELSE (IF Last(log) > 0 THEN Last(log) ELSE 0) + BytesOf(SubSeq(log, 1, Len(log) - 1))

\* C7: with T = 0 nothing is ever printed, no division by T is evaluated,
\* the counter is the number of bytes read so far and every read returns
\* what the wrapped read returned.
C7_ZeroTotalSilent ==
    total = 0 =>
        /\ progress_out = << >>
        /\ last_print = 0
        /\ pc # "panic"
        /\ current = BytesOf(read_log)
        /\ read_log # << >> => ret = Last(read_log)

\* a transfer of unknown size has read bytes in several reads and ended
C7_Witness ==
    /\ total = 0
    /\ pc = "copied"
    /\ Len(read_log) = 4
    /\ current = 252
    /\ progress_out = << >>

-----------------------------------------------------------------------------
(* C8 *)

\* C8: after a run that completes, every entry was visited and the keys of
\* the store are the identifiers of the Records built; the archive of entry
\* A (AB12345, AB12345, CD67890) and entry B (EF11111, then unparsable)
\* completes, whenever it can be opened, with exactly these three keys and
\* one warning, for entry B.
C8_StoreIsWhatWasEmitted ==
    /\ (pc = "done" /\ result.kind = "Ok") => (DOMAIN db = emitted /\ idx = nEntries)
    /\ (pc = "done" /\ archive = ScenarioArchive /\ result.kind \notin FatalKinds) =>
            /\ result.kind = "Ok"
            /\ DOMAIN db = {AB12345, CD67890, EF11111}
            /\ warned = {1}

\* the run over entry A and entry B has completed
C8_Witness ==
    /\ archive = ScenarioArchive
    /\ pc = "done"
    /\ result.kind = "Ok"
    /\ processed_count = 4
    /\ Cardinality(DOMAIN db) = 3
    /\ warned = {1}
    /\ shown_total = 3

-----------------------------------------------------------------------------
(* C9 *)

Range(seq) == {seq[i] : i \in 1..Len(seq)}
Min(a, b) == IF a < b THEN a ELSE b

\* C9: display_results prints the stored identifiers in ascending order of
\* String, the first 10 of that order at most ({B, A, C} as A, B, C), and
\* leaves the store as it was.
C9_SortedPreview ==
    /\ [](shown_total # -1 =>
            /\ shown_total = Cardinality(DOMAIN db)
            /\ Len(shown) = Min(10, shown_total)
            /\ \A i \in 1..(Len(shown) - 1) : LexLess(shown[i], shown[i + 1])
            /\ Range(shown) \subseteq DOMAIN db
            /\ \A k \in DOMAIN db \ Range(shown) : \A x \in Range(shown) : LexLess(x, k))
    /\ []((shown_total # -1 /\ DOMAIN db = {<<66>>, <<65>>, <<67>>}) =>
            shown = << <<65>>, <<66>>, <<67>> >>)
    /\ [][pc = "display" => db' = db]_vars

\* a store of twelve identifiers was displayed: ten lines, in order
C9_Witness ==
    /\ shown_total = 12
    /\ Len(shown) = 10
    /\ shown[1] = <<65>>
    /\ shown[2] = <<65, 65>>
    /\ shown[10] = <<67, 65>>
    /\ shown_more = 2

-----------------------------------------------------------------------------
(* C10 *)

\* C10: when the path given does not exist, the run is at its start or has
\* failed with the source-not-found error that carries the path; no archive
\* was opened, no entry scanned, nothing stored or displayed, and no
\* transfer attempted.
C10_MissingFileFailsFirst ==
    (Len(args) > 1 /\ args[2] \notin ExistingFiles) =>
        /\ pc \in {"main", "done"}
        /\ pc = "done" => result = Result("SourceNotFound", args[2])
        /\ pc = "main" => result.kind = "none"
        /\ db = EmptyDb
        /\ emitted = {}
        /\ processed_count = 0
        /\ nEntries = 0
        /\ idx = 0
        /\ shown_total = -1
        /\ ~ftpAttempted

\* the run has failed on the missing path
C10_Witness ==
    /\ pc = "done"
    /\ result = Result("SourceNotFound", "missing.zip")
    /\ db = EmptyDb

-----------------------------------------------------------------------------
(* C11 *)

\* C11: the milestones reported so far are exactly the positive multiples of
\* 1000 that the number of insertions of the run (clock counts them, over all
\* entries, duplicates included) has reached, each once, in increasing order.
C11_Milestones ==
    milestones = [k \in 1..(clock \div MilestoneEvery) |-> k * MilestoneEvery]

\* the second milestone is reported in the second entry, with two keys stored
C11_Witness ==
    /\ milestones = <<MilestoneEvery, 2 * MilestoneEvery>>
    /\ idx = 2
    /\ Cardinality(DOMAIN db) = 2

-----------------------------------------------------------------------------
(* C12 *)

\* C12: every call of ProgressReader::read makes one read of the wrapped
\* reader and returns what that read returned, byte count or error; when it
\* returned an error the counter and the percentage printed last are
\* unchanged and nothing is printed.
C12_Transparent ==
    [][pc = "copy" =>
         /\ Len(read_log') = Len(read_log) + 1
         /\ SubSeq(read_log', 1, Len(read_log)) = read_log
         /\ ret' = Last(read_log')
         /\ (Last(read_log') = ReadError) =>
               UNCHANGED <<current, last_print, progress_out>>]_vars

\* a transfer of seven bytes has failed after three bytes and one percentage
C12_Witness ==
    /\ total = 7
    /\ read_log = <<1, 2, ReadError>>
    /\ ret = ReadError
    /\ pc = "copy_failed"
    /\ current = 3
    /\ progress_out = <<14, 42>>

-----------------------------------------------------------------------------
(* C13 *)

\* the start-tag of a LicensePlate was read
OpensLicensePlate ==
    /\ pc = "scan" /\ pc' = "scan"
    /\ Len(stack') > Len(stack)
    /\ Top(stack') = LicensePlate

\* C13: stepped side by side over any sequence of events, the scan loop and
\* the transition table emit the same Records: a step of the loop stores one
\* Record, with the table's pending field text as identifier, when it reads
\* the end-tag of a Vehicle while that text is non-empty, and nothing
\* otherwise; and a start-tag LicensePlate read outside a Vehicle does not
\* set the field flag.
C13_RefinesTable ==
    /\ [][pc = "scan" =>
            IF ClosesVehicle /\ ~is_empty(table.pendingFieldText)
              THEN EmitsOne(table.pendingFieldText)
              ELSE EmitsNone]_vars
    /\ [][(OpensLicensePlate /\ ~in_vehicle /\ ~in_license_plate) => ~in_license_plate']_vars

-----------------------------------------------------------------------------
(* C14 *)

\* C14: the scan of every entry starts with both flags false and the vehicle's
\* plate empty, whatever the scan of the entry before left behind; after an
\* entry abandoned inside <Vehicle><LicensePlate>AB12345, the entry
\* <Vehicle>CD67890</Vehicle> stores no Record.
C14_ResetPerEntry ==
    /\ [][(pc = "entry" /\ pc' = "scan") =>
            (~in_vehicle' /\ ~in_license_plate' /\ is_empty(plate'))]_vars
    /\ [](archive = UnclosedArchive => db = EmptyDb)

\* the run over that archive has ended: the first entry was abandoned, the
\* second was scanned to its end, and the store is empty
C14_Witness ==
    /\ archive = UnclosedArchive
    /\ pc = "done"
    /\ result.kind = "Ok"
    /\ idx = 2
    /\ warned = {0}
    /\ db = EmptyDb

-----------------------------------------------------------------------------
(* C15 *)

\* the next event of the document is its end or an error
AtEndOfStream ==
    /\ pc = "scan"
    /\ IF archive = << >>
         THEN stream.finite /\ stream.left = 0
         ELSE input # << >> /\ Head(input).kind \in {"Eof", "Err"}

\* C15: over an archive of finitely many entries with documents of finitely
\* many events every scan ends and the run returns, with success or with a
\* failure; a scan ends only at the end of input (no warning) or at a parse
\* error (a warning), going on to the next entry, and the step that reads
\* the end of input or an error leaves the scan loop.
C15_Terminates ==
    /\ <>(pc = "done")
    /\ [](pc = "done" => result.kind # "none")
    /\ (pc = "scan") ~> (pc # "scan")
    /\ [][(pc = "scan" /\ pc' # "scan") =>
            /\ pc' = "entry"
            /\ idx' = idx + 1
            /\ warned' \in {warned, warned \cup {idx}}]_vars
    /\ [][(AtEndOfStream /\ vars' # vars) => pc' # "scan"]_vars

\* a run over two documents of bounded length has returned: one document
\* ended at its end of input, the other, read to its bound, at an error
C15_Witness ==
    /\ archive = << >>
    /\ stream = OfLength(0)
    /\ pc = "done"
    /\ result.kind = "Ok"
    /\ nEntries = 2
    /\ idx = 2
    /\ warned = {1}

-----------------------------------------------------------------------------
(* C16 *)

\* the start-tag or the end-tag of an element other than Vehicle and
\* LicensePlate was read
OtherTagStep ==
    /\ pc = "scan" /\ pc' = "scan"
    /\ \/ Len(stack') > Len(stack) /\ Top(stack') = OtherTag
       \/ Len(stack') < Len(stack) /\ Top(stack) = OtherTag

\* an event that is no tag was read outside the record-and-field state
NoTagStepOutsideField ==
    /\ pc = "scan" /\ pc' = "scan"
    /\ stack' = stack
    /\ ~(in_vehicle /\ in_license_plate)

\* C16: the tags of other elements, and texts read while not inside both a
\* Vehicle and a LicensePlate, leave the flags, the plate and the store
\* unchanged and build no Record.
C16_UnknownIgnored ==
    [][(OtherTagStep \/ NoTagStepOutsideField) =>
          /\ UNCHANGED <<in_vehicle, in_license_plate, plate>>
          /\ EmitsNone]_vars

\* another element was opened inside a Vehicle after its LicensePlate: the
\* flags and the plate are as the LicensePlate left them
C16_Witness ==
    /\ pc = "scan"
    /\ stack = <<Vehicle, OtherTag>>
    /\ in_vehicle /\ ~in_license_plate
    /\ plate = AB12345
    /\ db = EmptyDb

-----------------------------------------------------------------------------
(* C17 *)

\* C17: in every state of a run every key of the store is a string of at
\* least one byte and is the plate of the Record stored under it.
C17_KeysAreNonEmptyPlates ==
    \A k \in DOMAIN db : Len(k) > 0 /\ db[k].plate = k

\* a Vehicle without a plate has closed after one with a plate: one Record
\* is stored, under its plate
C17_Witness ==
    /\ pc = "scan"
    /\ DOMAIN db = {AB12345}
    /\ db[AB12345].plate = AB12345
    /\ stack = << >>
    /\ ~in_vehicle
    /\ plate = EmptyString

-----------------------------------------------------------------------------
(* C18 *)

\* the event read next from a fixed archive is an error of the document: a
\* parse error, or inside the field a text that cannot be decoded
ReadsAnError ==
    /\ pc = "scan"
    /\ archive # << >>
    /\ input # << >>
    /\ input' # input
    /\ \/ Head(input).kind = "Err"
       \/ Head(input).kind = "Text" /\ ~Head(input).ok /\ in_vehicle /\ in_license_plate

\* C18: no error met during the scan of an entry is swallowed: the step that
\* reads a parse error, or inside the field a text that cannot be decoded,
\* prints a warning for the entry.
C18_NoErrorSwallowed ==
    [][ReadsAnError => (idx \in warned' /\ idx \notin warned)]_vars

-----------------------------------------------------------------------------
(* C19 *)

\* C19: with T > 0, in every state of a transfer, last_print is
\* floor(current*100/T), current is the sum of the byte counts returned so
\* far and never decreases, and while current <= T every percentage printed
\* lies in 1..100.
C19_ProgressInvariant ==
    /\ [](total > 0 =>
            /\ last_print = (current * 100) \div total
            /\ current = BytesOf(read_log)
            /\ current <= total =>
                  \A i \in 1..Len(progress_out) : progress_out[i] \in 1..100)
    /\ [][total > 0 => current' >= current]_vars

\* a stream longer than the declared three bytes has printed 33, 100, 133
C19_Witness ==
    /\ total = 3
    /\ read_log = <<1, 2, 1>>
    /\ current = 4
    /\ last_print = 133
    /\ progress_out = <<33, 100, 133>>

-----------------------------------------------------------------------------
(* C20 *)

\* the number of keys of a store
Keys(d) == Cardinality(DOMAIN d)

\* C20: every insertion raises processed_count by one and nothing else
\* does; an insertion under a new plate adds a key and one under a stored
\* plate adds none, so the store never has more keys than processed_count,
\* and has as many exactly as long as every insertion was under a new plate;
\* the total shown by display_results is the number of keys.
C20_CountsInsertions ==
    /\ [][pc = "scan" =>
            /\ (db' # db) <=> (processed_count' = processed_count + 1)
            /\ (db' = db) <=> (processed_count' = processed_count)
            /\ (db' # db) =>
                  Keys(db') = Keys(db) + (IF plate \in DOMAIN db THEN 0 ELSE 1)]_vars
    /\ [](Keys(db) <= processed_count)
    /\ [][(pc = "scan" /\ Keys(db) < processed_count) => Keys(db') < processed_count']_vars
    /\ [](shown_total # -1 => (shown_total = Keys(db) /\ shown_total <= processed_count))

\* the run over entry A (AB12345 twice, CD67890) and entry B (EF11111) has
\* ended: four insertions were counted and a total of three is shown
C20_Witness ==
    /\ archive = ScenarioArchive
    /\ pc = "done"
    /\ processed_count = 4
    /\ shown_total = 3
    /\ Keys(db) = 3

=============================================================================
